---- MODULE Spec2Model ----
(***************************************************************************)
(* Model of the Hotstar episode scraper: the static extractor of           *)
(* hotstar.py (strategy chain over the fetched HTML) and the rendering     *)
(* variant of hotstar-docker.py (Selenium session), each driven by its     *)
(* serve_multiple_data batch loop.                                         *)
(*                                                                         *)
(* A Python str is modelled as a sequence of tokens: one-character tokens  *)
(* where the code looks inside the text (URLs, element text), and one      *)
(* opaque token for a text the code only passes on.  Python's None is the  *)
(* reserved value None below, different from every str.                    *)
(***************************************************************************)
EXTENDS Integers, Sequences, FiniteSets, TLC

\* ------------------------------------------------------------------ strings

None == <<"<None>">>

\* Python truthiness of a str-or-None value: None and "" are falsy.
Truthy(v) == v # None /\ v # <<>>

\* Python's `a or b` on str-or-None values.
Or(a, b) == IF Truthy(a) THEN a ELSE b

Lower(c) ==
    CASE c = "A" -> "a"
      [] c = "B" -> "b"
      [] c = "S" -> "s"
      [] OTHER -> c

Upper(c) ==
    CASE c = "a" -> "A"
      [] c = "b" -> "B"
      [] c = "s" -> "S"
      [] OTHER -> c

\* str.capitalize(): first character upper-cased, the rest lower-cased.
Capitalize(w) ==
    [k \in 1..Len(w) |-> IF k = 1 THEN Upper(w[k]) ELSE Lower(w[k])]

\* str.split(sep) for a one-character separator: always at least one piece.
RECURSIVE Split(_, _)
Split(s, sep) ==
    IF \A k \in 1..Len(s) : s[k] # sep
    THEN <<s>>
    ELSE LET p == CHOOSE k \in 1..Len(s) :
                      s[k] = sep /\ \A m \in 1..(k - 1) : s[m] # sep
         IN  <<SubSeq(s, 1, p - 1)>> \o Split(SubSeq(s, p + 1, Len(s)), sep)

\* sep.join(words)
RECURSIVE Join(_, _)
Join(words, sep) ==
    IF Len(words) = 0 THEN <<>>
    ELSE IF Len(words) = 1 THEN words[1]
    ELSE words[1] \o sep \o Join(Tail(words), sep)

IsSpace(c) == c = " "

\* str.strip(): leading and trailing whitespace removed.
RECURSIVE Strip(_)
Strip(s) ==
    IF Len(s) = 0 THEN s
    ELSE IF IsSpace(s[1]) THEN Strip(Tail(s))
    ELSE IF IsSpace(s[Len(s)]) THEN Strip(SubSeq(s, 1, Len(s) - 1))
    ELSE s

IsDigit(c) == c \in {"1", "2"}

\* ------------------------------------------------------------------ URLs

ShowsMarker == <<"s", "h", "o", "w", "s", "/">>

\* re.search(r'shows/([^/]+)/', url) matches at position i, its group ending
\* right before position j.
ShowsMatch(url, i, j) ==
    /\ i + 5 <= Len(url)
    /\ SubSeq(url, i, i + 5) = ShowsMarker
    /\ j >= i + 7
    /\ j <= Len(url)
    /\ url[j] = "/"
    /\ \A k \in (i + 6)..(j - 1) : url[k] # "/"

HasShows(url) == \E i \in 1..Len(url) : \E j \in 1..Len(url) : ShowsMatch(url, i, j)

\* match.group(1) of the leftmost match
ShowsSlug(url) ==
    LET i == CHOOSE a \in 1..Len(url) :
                 /\ \E j \in 1..Len(url) : ShowsMatch(url, a, j)
                 /\ \A b \in 1..(a - 1) : \A j \in 1..Len(url) : ~ShowsMatch(url, b, j)
        j == CHOOSE b \in 1..Len(url) : ShowsMatch(url, i, b)
    IN  SubSeq(url, i + 6, j - 1)

FormatSlug(slug) ==
    LET words == Split(slug, "-")
    IN  Join([k \in 1..Len(words) |-> Capitalize(words[k])], <<" ">>)

UnknownShow == <<"Unknown Show">>

\* hotstar.py: format_name_from_url
format_name_from_url(url) ==
    IF HasShows(url) THEN FormatSlug(ShowsSlug(url)) ELSE UnknownShow

\* hotstar-docker.py: format_name_from_url (no placeholder: returns None)
docker_format_name_from_url(url) ==
    IF HasShows(url) THEN FormatSlug(ShowsSlug(url)) ELSE None

\* re.search(r'/(\d+)/?$', url)
HasContentId(url) ==
    \E p \in 1..Len(url) : \E q \in (p + 1)..Len(url) :
        /\ url[p] = "/"
        /\ \A k \in (p + 1)..q : IsDigit(url[k])
        /\ \/ q = Len(url)
           \/ q + 1 = Len(url) /\ url[Len(url)] = "/"

\* The target URLs the model draws from.  UrlShow and UrlUpper end in a content
\* id, UrlNoShows and UrlNoSlash hold no shows/<segment>/ part.
UrlShow == <<"/", "s", "h", "o", "w", "s", "/", "a", "-", "b", "/", "1", "2">>
UrlUpper == <<"/", "s", "h", "o", "w", "s", "/", "s", "B", "-", "/", "1", "/">>
UrlNoShows == <<"/", "a", "/", "1", "b">>
UrlNoSlash == <<"/", "s", "h", "o", "w", "s", "/", "a", "b">>

\* The URLs of the batch specification, and those of the two-run specification.
URLSet == {UrlShow, UrlNoShows}
TwiceURLs == {UrlShow, UrlUpper, UrlNoShows, UrlNoSlash}

\* ------------------------------------------------------------------ pages

\* A Python dict with str keys: a function from the keys present to values.
Get(d, k) == IF k \in DOMAIN d THEN d[k] ELSE None

EmptyDict == [k \in {} |-> None]

\* A <script> element of the fetched page.
\*   ld   : its type is application/ld+json
\*   body : "none"    the element has no single text child (script.string is None)
\*          "invalid" text that json.loads rejects
\*          "list"    text that parses to something that is no dict
\*          "dict"    text that parses to a dict
\*   kv   : the "key": "value" pairs written in the text; for a dict body they
\*          are the dict's entries
Script(ld, body, kv) == [ld |-> ld, body |-> body, kv |-> kv]

LdEpisode == Script(TRUE, "dict",
                    ("name" :> <<"Ep 1">>) @@ ("description" :> <<"Desc">>)
                    @@ ("datePublished" :> <<"2024">>))
LdDescOnly == Script(TRUE, "dict", ("title" :> <<>>) @@ ("description" :> <<"Desc">>))
LdNoFields == Script(TRUE, "dict", ("url" :> <<"u">>))
LdDateOnly == Script(TRUE, "dict", ("releaseDate" :> <<"2023">>))
LdList == Script(TRUE, "list", ("name" :> <<"In list">>))
LdInvalid == Script(TRUE, "invalid", EmptyDict)
LdEmpty == Script(TRUE, "none", EmptyDict)
JsTitle == Script(FALSE, "invalid",
                  ("title" :> <<"Js title">>) @@ ("synopsis" :> <<"Js syn">>))
JsDateOnly == Script(FALSE, "invalid", ("publishedTime" :> <<"2022">>))
JsPlain == Script(FALSE, "invalid", EmptyDict)
JsEmpty == Script(FALSE, "none", EmptyDict)

\* A fetched page: its <script> elements in document order, the <meta> elements
\* that soup.find reaches with a non-empty content (name -> content), and the
\* text of its <title> element (None: no such element).
Page(scripts, metas, title) == [scripts |-> scripts, metas |-> metas, title |-> title]

MetaTitle == ("og:title" :> <<"og title">>) @@ ("twitter:title" :> <<"tw title">>)
MetaDescs == ("description" :> <<"plain desc">>) @@ ("og:description" :> <<"og desc">>)
MetaDate == ("article:published_time" :> <<"2021">>)
MetaTwitter == ("twitter:title" :> <<"tw title">>) @@ ("twitter:description" :> <<"tw desc">>)
               @@ ("description" :> <<"plain desc">>)
TitleText == <<" ", "T", " ">>

ScriptLists ==
    { <<>>, <<LdEpisode>>, <<LdEmpty, LdEpisode>>, <<LdInvalid, LdList, LdDescOnly>>,
      <<JsPlain, LdEpisode>>, <<LdList>>, <<LdNoFields>>, <<LdDateOnly>>, <<LdEmpty>>,
      <<LdInvalid>>, <<JsTitle>>, <<JsEmpty, JsPlain, JsTitle>>, <<JsDateOnly>>,
      <<JsPlain>> }

\* The pages the two-run specification fetches.
PageSet ==
    { Page(sl, EmptyDict, None) : sl \in ScriptLists }
    \cup { Page(sl, MetaTitle @@ MetaDescs, TitleText) :
             sl \in { <<>>, <<LdEpisode>>, <<LdEmpty, LdEpisode>>, <<JsPlain>> } }
    \cup { Page(<<>>, m, t) :
             m \in {EmptyDict, MetaDescs, MetaDate, MetaTwitter}, t \in {None, TitleText, <<>>} }

\* The pages the batch specification fetches: one per outcome of the chain.
BatchPages ==
    { Page(<<LdEpisode>>, EmptyDict, None), Page(<<LdEmpty>>, EmptyDict, None),
      Page(<<JsDateOnly>>, EmptyDict, None), Page(<<JsPlain>>, MetaDescs, None),
      Page(<<>>, EmptyDict, None) }

\* ------------------------------------------------------------------ result records

\* What a strategy hands back to the chain.
Hit(rec) == [kind |-> "hit", rec |-> rec]
Miss == [kind |-> "miss"]
Raise(e) == [kind |-> "raise", exc |-> e]

\* hotstar.py: the record of the `except requests.RequestException` handler
RequestFailed(url, cause) ==
    [error |-> <<"Request failed: ", cause>>,
     name |-> format_name_from_url(url),
     status |-> "error",
     title |-> <<"Request failed">>,
     description |-> <<"Could not fetch page data">>,
     date |-> <<"N/A">>]

\* hotstar.py: the record of the `except Exception` handler
ErrorOccurred(url, e) ==
    [error |-> <<e>>,
     name |-> format_name_from_url(url),
     status |-> "error",
     title |-> <<"Error occurred">>,
     description |-> <<"Could not process page data">>,
     date |-> <<"N/A">>]

\* hotstar.py: the record serve_multiple_data builds when the extractor raises
ProcessingFailed(url, e) ==
    [error |-> <<"Failed to process: ", e>>,
     name |-> format_name_from_url(url),
     status |-> "error",
     title |-> <<"Processing failed">>,
     description |-> <<"Could not process this URL">>,
     date |-> <<"N/A">>]

\* Mutant of Fallback: exhaustion reported as an error.
FallbackAsError(show_name) ==
    [error |-> <<"All extraction strategies failed">>,
     title |-> <<"Unable to extract title">>,
     description |-> <<"Unable to extract description - content may be loaded dynamically">>,
     date |-> <<"Unable to extract date">>,
     name |-> show_name,
     status |-> "error"]

\* hotstar.py: the record returned when every strategy found nothing
Fallback(show_name) ==
    [title |-> <<"Unable to extract title">>,
     description |-> <<"Unable to extract description - content may be loaded dynamically">>,
     date |-> <<"Unable to extract date">>,
     name |-> show_name,
     status |-> "limited_data",
     source |-> "Fallback",
     note |-> <<"All extraction strategies failed - may need browser automation">>]

\* ------------------------------------------------------------------ strategy 1

\* The record built from a JSON-LD dict, when it holds a title or a description.
JsonLdRecord(data, show_name) ==
    LET title == Or(Get(data, "name"), Get(data, "title"))
        description == Get(data, "description")
        date == Or(Get(data, "datePublished"), Get(data, "uploadDate"))
    IN  IF Truthy(title) \/ Truthy(description)
        THEN Hit([title |-> Or(title, <<"Title not available">>),
                  description |-> Or(description, <<"Description not available">>),
                  date |-> Or(date, <<"Date not available">>),
                  name |-> show_name,
                  status |-> "success",
                  source |-> "JSON-LD"])
        ELSE Miss

\* soup.find_all('script', type='application/ld+json')
JsonLdScripts(page) == SelectSeq(page.scripts, LAMBDA sc : sc.ld)

\* The loop over the JSON-LD blocks from block k on.  json.loads(None) raises a
\* TypeError, which the loop's `except (JSONDecodeError, AttributeError)` does
\* not catch; a JSONDecodeError is caught and the loop continues; a value that
\* is no dict is passed over.
RECURSIVE JsonLdLoop(_, _, _)
JsonLdLoop(blocks, k, show_name) ==
    IF k > Len(blocks) THEN Miss
    ELSE LET sc == blocks[k]
         IN  CASE sc.body = "none" -> Raise("TypeError")
               [] sc.body = "invalid" -> JsonLdLoop(blocks, k + 1, show_name)
               [] sc.body = "list" -> JsonLdLoop(blocks, k + 1, show_name)
               [] sc.body = "dict" ->
                    LET r == JsonLdRecord(sc.kv, show_name)
                    IN  IF r.kind = "hit" THEN r
                        ELSE JsonLdLoop(blocks, k + 1, show_name)

Strategy1(page, show_name) == JsonLdLoop(JsonLdScripts(page), 1, show_name)

\* ------------------------------------------------------------------ strategy 2

\* The names of the six patterns, in the order of the `patterns` list.
Patterns == <<"title", "name", "description", "synopsis", "releaseDate", "publishedTime">>

\* re.findall finds a "key": "value" pair with a non-empty value.
PatternFound(sc, key) == key \in DOMAIN sc.kv /\ sc.kv[key] # <<>>

\* extracted_data of one script: pattern name -> first match
ExtractedData(sc) ==
    [key \in {Patterns[k] : k \in {m \in 1..Len(Patterns) : PatternFound(sc, Patterns[m])}}
        |-> sc.kv[key]]

\* list(extracted_data.keys()): the keys in insertion order
ExtractedFields(sc) == SelectSeq(Patterns, LAMBDA key : PatternFound(sc, key))

JavaScriptRecord(sc, show_name) ==
    LET extracted_data == ExtractedData(sc)
    IN  [title |-> Or(Or(Get(extracted_data, "title"), Get(extracted_data, "name")),
                      <<"Title found in JS">>),
         description |-> Or(Or(Get(extracted_data, "description"),
                               Get(extracted_data, "synopsis")),
                            <<"Description found in JS">>),
         date |-> Or(Or(Get(extracted_data, "releaseDate"),
                        Get(extracted_data, "publishedTime")),
                     <<"Date found in JS">>),
         name |-> show_name,
         status |-> "success",
         source |-> "JavaScript extraction",
         extracted_fields |-> ExtractedFields(sc)]

\* The script is accepted when extracted_data is not empty.
ScriptAccepted(sc) == sc.body # "none" /\ DOMAIN ExtractedData(sc) # {}

\* The loop over soup.find_all('script'): every script element, the JSON-LD
\* blocks included, from script k on.
RECURSIVE ScriptLoop(_, _, _)
ScriptLoop(scripts, k, show_name) ==
    IF k > Len(scripts) THEN Miss
    ELSE IF ScriptAccepted(scripts[k]) THEN Hit(JavaScriptRecord(scripts[k], show_name))
    ELSE ScriptLoop(scripts, k + 1, show_name)

\* Mutant of Strategy2: the script scan accepts nothing.
Strategy2Never(page, show_name) == Miss

Strategy2(page, show_name) == ScriptLoop(page.scripts, 1, show_name)

\* ------------------------------------------------------------------ strategy 3

\* Mutant of MetaTags: the plain description ahead of og:description.
MetaTagsPlainFirst ==
    << <<"og:title", "title">>, <<"twitter:title", "title">>,
       <<"description", "description">>, <<"og:description", "description">>,
       <<"twitter:description", "description">>, <<"og:updated_time", "date">>,
       <<"article:published_time", "date">> >>

\* The (meta name, field) pairs of the `meta_tags` list, in its order.
MetaTags ==
    << <<"og:title", "title">>, <<"og:description", "description">>,
       <<"twitter:title", "title">>, <<"twitter:description", "description">>,
       <<"description", "description">>, <<"og:updated_time", "date">>,
       <<"article:published_time", "date">> >>

\* meta_data: a dict with its insertion order (keys) and its entries (get).
EmptyMeta == [keys |-> <<>>, get |-> EmptyDict]

\* The loop over meta_tags from entry k on: a field keeps its first value.
RECURSIVE MetaLoop(_, _, _)
MetaLoop(page, k, md) ==
    IF k > Len(MetaTags) THEN md
    ELSE LET meta_name == MetaTags[k][1]
             field == MetaTags[k][2]
         IN  IF meta_name \in DOMAIN page.metas /\ field \notin DOMAIN md.get
             THEN MetaLoop(page, k + 1,
                           [keys |-> Append(md.keys, field),
                            get |-> (field :> page.metas[meta_name]) @@ md.get])
             ELSE MetaLoop(page, k + 1, md)

\* The title element is used when meta_data holds no (truthy) title.
WithTitleTag(page, md) ==
    IF page.title # None /\ ~Truthy(Get(md.get, "title"))
    THEN [keys |-> IF "title" \in DOMAIN md.get THEN md.keys ELSE Append(md.keys, "title"),
          get |-> ("title" :> Strip(page.title)) @@ md.get]
    ELSE md

MetaData(page) == WithTitleTag(page, MetaLoop(page, 1, EmptyMeta))

\* dict.get(k, default): the default only for an absent key
GetDefault(d, k, default) == IF k \in DOMAIN d THEN d[k] ELSE default

\* Mutant of Strategy3: the scan is accepted only when it found a title.
Strategy3TitleOnly(page, show_name) ==
    LET meta_data == MetaData(page)
    IN  IF Truthy(Get(meta_data.get, "title"))
        THEN Hit([title |-> meta_data.get["title"],
                  description |-> GetDefault(meta_data.get, "description",
                                             <<"Description not available">>),
                  date |-> GetDefault(meta_data.get, "date", <<"Date not available">>),
                  name |-> show_name,
                  status |-> "success",
                  source |-> "Meta tags",
                  found_meta |-> meta_data.keys])
        ELSE Miss

Strategy3(page, show_name) ==
    LET meta_data == MetaData(page)
    IN  IF DOMAIN meta_data.get # {}
        THEN Hit([title |-> GetDefault(meta_data.get, "title", <<"Title not available">>),
                  description |-> GetDefault(meta_data.get, "description",
                                             <<"Description not available">>),
                  date |-> GetDefault(meta_data.get, "date", <<"Date not available">>),
                  name |-> show_name,
                  status |-> "success",
                  source |-> "Meta tags",
                  found_meta |-> meta_data.keys])
        ELSE Miss

\* ------------------------------------------------------------------ strategy 4

\* The number of entries of the `api_urls` list.
NumApiUrls == 3

\* f"Hotstar API ({api_url})" for the k-th entry of api_urls
ApiSource(k) ==
    CASE k = 1 -> "Hotstar API (o/v1/show/detail?contentId=)"
      [] k = 2 -> "Hotstar API (h/v2/show/)"
      [] OTHER -> "Hotstar API (o/v1/content/)"

\* What an endpoint can answer:
\*   "raise"     session.get or api_response.json() raises
\*   "non200"    a status code other than 200
\*   "noresults" 200 and JSON without body.results
\*   "results"   200 and JSON whose body.results is the dict `result`
Answer(kind, result) == [kind |-> kind, result |-> result]

ApiFull == ("name" :> <<"Api name">>) @@ ("synopsis" :> <<"Api syn">>)
           @@ ("releaseDate" :> <<"2020">>)

ApiAnswers ==
    { Answer("raise", EmptyDict), Answer("non200", EmptyDict),
      Answer("noresults", EmptyDict), Answer("results", ApiFull),
      Answer("results", EmptyDict) }

\* One pass of the loop over api_urls: the k-th endpoint answered `answer`.
ApiProbe(k, answer, show_name) ==
    IF answer.kind = "results"
    THEN LET result == answer.result
         IN  Hit([title |-> Or(Or(Get(result, "title"), Get(result, "name")),
                               <<"API Title">>),
                  description |-> Or(Or(Get(result, "description"),
                                        Get(result, "synopsis")),
                                     <<"API Description">>),
                  date |-> Or(Or(Get(result, "releaseDate"),
                                 Get(result, "publishedTime")),
                              <<"API Date">>),
                  name |-> show_name,
                  status |-> "success",
                  source |-> ApiSource(k)])
    ELSE Miss

\* ------------------------------------------------------------------ rendered page

\* An episode card of the rendered page:
\*   h3        text of its first <h3> (None: it has none)
\*   p         textContent of its first p[class*='ON_IMAGE_ALT2'] (None: none)
\*   container it holds a div.LABEL_CAPTION2_MEDIUM
\*   spans     textContent of the label spans inside that div, in document order
Card(h3, p, container, spans) == [h3 |-> h3, p |-> p, container |-> container, spans |-> spans]

Badge == <<"T", "a">>
DateA == <<" ", "9", " ", "J", " ">>
DateB == <<"8">>

CardFull == Card(<<"E", "1">>, <<" ", "D", "1", " ">>, TRUE, <<Badge, DateA>>)
CardOther == Card(<<"E", "2">>, <<"D", "2">>, TRUE, <<Badge, DateB>>)
CardThreeSpans == Card(<<"E", "1">>, <<"D", "1">>, TRUE, <<Badge, DateB, DateA>>)
CardOneSpan == Card(<<"E", "1">>, <<"D", "1">>, TRUE, <<DateA>>)
CardNoSpans == Card(<<"E", "1">>, <<"D", "1">>, TRUE, <<>>)
CardNoDate == Card(<<"E", "1">>, <<"D", "1">>, FALSE, <<>>)
CardNoTitle == Card(None, <<"D", "1">>, TRUE, <<Badge, DateA>>)
CardNoDesc == Card(<<"E", "1">>, None, TRUE, <<Badge, DateA>>)

\* What find_elements('[data-testid="episode-card"]') can return.
EpisodeLists ==
    { <<>>, <<CardFull>>, <<CardOther>>, <<CardThreeSpans>>, <<CardOneSpan>>,
      <<CardNoSpans>>, <<CardNoDate>>, <<CardNoTitle>>, <<CardNoDesc>>,
      <<CardFull, CardOther>>, <<CardOther, CardFull>>, <<CardOther, CardNoTitle, CardFull>> }

\* hotstar-docker.py: the record scrape_episode_data returns after extraction
EpisodeRecord(t, d, dt, url) ==
    [title |-> t, description |-> d, date |-> dt, name |-> docker_format_name_from_url(url)]

\* hotstar-docker.py: the record of scrape_episode_data's `except Exception`
SessionError(e, url) == [error |-> e, name |-> docker_format_name_from_url(url)]

\* ------------------------------------------------------------------ state

\* The longest target list the model draws.
MaxTargets == 2

TargetLists == UNION { [1..n -> URLSet] : n \in 0..MaxTargets }

VARIABLES
    variant,      \* "static" (hotstar.py) or "docker" (hotstar-docker.py)
    urls,         \* the `urls` list of serve_multiple_data (hotstar.py 244-248)
    i,            \* 1-based index of the target being processed (hotstar.py 252)
    pc,           \* where the handler is
    results,      \* the `results` list of serve_multiple_data (hotstar.py 250)
    result,       \* the record the extraction of the current target returns
    page,         \* <<the page fetched for the current target>>, <<>> if none
    probes,       \* the answers of the endpoints probed for the current target
    requests,     \* number of session.get calls for the current target (hotstar.py 50, 167)
    slept,        \* number of time.sleep(2) calls of the batch loop (hotstar.py 259)
    driver,       \* the session's `driver` local is bound (hotstar-docker.py 31)
    quits,        \* number of driver.quit() calls of the current session
    episodes,     \* the session's `episodes` local (hotstar-docker.py 43)
    title,        \* the session's `title` local (hotstar-docker.py 50)
    description,  \* the session's `description` local (hotstar-docker.py 54)
    date_text,    \* the session's `date_text` local (hotstar-docker.py 59)
    exc,          \* the exception the session's `except` clause caught
    response,     \* the body serve_multiple_data returns
    prevPage,     \* the page of the previous extraction (two-run specification)
    prevProbes    \* the endpoint answers of the previous extraction (same)

staticVars == <<page, probes, requests>>
sessionVars == <<driver, quits, episodes, title, description, date_text, exc>>
historyVars == <<prevPage, prevProbes>>
vars == <<variant, urls, i, pc, results, result, slept, response,
          staticVars, sessionVars, historyVars>>

NoResult == [name |-> None]

Start ==
    /\ i = 1
    /\ pc = "loop"
    /\ results = <<>>
    /\ result = NoResult
    /\ page = <<>>
    /\ probes = <<>>
    /\ requests = 0
    /\ slept = 0
    /\ driver = FALSE
    /\ quits = 0
    /\ episodes = <<>>
    /\ title = None
    /\ description = None
    /\ date_text = None
    /\ exc = None
    /\ response = <<>>
    /\ prevPage = <<>>
    /\ prevProbes = <<>>

Init ==
    /\ variant \in {"static", "docker"}
    /\ urls \in TargetLists
    /\ Start

url == urls[i]

\* ------------------------------------------------------------------ static extractor

Static == variant = "static" /\ i <= Len(urls)

\* The chain moves on with `r`, the outcome of one strategy: a hit is returned,
\* an exception reaches the `except Exception` handler, a miss goes to `next`.
Chain(r, next) ==
    CASE r.kind = "hit" -> result' = r.rec /\ pc' = "ret"
      [] r.kind = "raise" -> result' = ErrorOccurred(url, r.exc) /\ pc' = "ret"
      [] OTHER -> result' = result /\ pc' = next

\* session.get(url, timeout=30) and raise_for_status() succeed; the page is parsed.
Fetch ==
    /\ Static /\ pc = "loop"
    /\ \E p \in BatchPages : page' = <<p>>
    /\ requests' = requests + 1
    /\ pc' = "s1"
    /\ UNCHANGED <<variant, urls, i, results, result, slept, response, probes,
                   sessionVars, historyVars>>

FetchCauses == {"timeout", "404 Client Error"}

\* session.get raises (timeout, transport failure) or raise_for_status raises:
\* a requests.RequestException.
FetchFail ==
    /\ Static /\ pc = "loop"
    /\ \E cause \in FetchCauses : result' = RequestFailed(url, cause)
    /\ requests' = requests + 1
    /\ pc' = "ret"
    /\ UNCHANGED <<variant, urls, i, results, slept, response, page, probes,
                   sessionVars, historyVars>>

JsonLd ==
    /\ Static /\ pc = "s1"
    /\ Chain(Strategy1(page[1], format_name_from_url(url)), "s2")
    /\ UNCHANGED <<variant, urls, i, results, slept, response, staticVars,
                   sessionVars, historyVars>>

InlineScripts ==
    /\ Static /\ pc = "s2"
    /\ Chain(Strategy2(page[1], format_name_from_url(url)), "s3")
    /\ UNCHANGED <<variant, urls, i, results, slept, response, staticVars,
                   sessionVars, historyVars>>

MetaTagScan ==
    /\ Static /\ pc = "s3"
    /\ Chain(Strategy3(page[1], format_name_from_url(url)), "s4")
    /\ UNCHANGED <<variant, urls, i, results, slept, response, staticVars,
                   sessionVars, historyVars>>

\* The next endpoint of api_urls is requested (only for a URL with a content id).
Probe ==
    /\ Static /\ pc = "s4"
    /\ HasContentId(url)
    /\ Len(probes) < NumApiUrls
    /\ \E answer \in ApiAnswers :
          /\ probes' = Append(probes, answer)
          /\ requests' = requests + 1
          /\ Chain(ApiProbe(Len(probes) + 1, answer, format_name_from_url(url)), "s4")
    /\ UNCHANGED <<variant, urls, i, results, slept, response, page,
                   sessionVars, historyVars>>

\* No content id, or every endpoint tried: the fallback record.
Exhausted ==
    /\ Static /\ pc = "s4"
    /\ ~HasContentId(url) \/ Len(probes) = NumApiUrls
    /\ result' = Fallback(format_name_from_url(url))
    /\ pc' = "ret"
    /\ UNCHANGED <<variant, urls, i, results, slept, response, staticVars,
                   sessionVars, historyVars>>

\* serve_multiple_data of hotstar.py appends the record and sleeps unless the
\* target was the last one.
AppendStatic ==
    /\ Static /\ pc = "ret"
    /\ results' = Append(results, result)
    /\ slept' = IF i < Len(urls) THEN slept + 1 ELSE slept
    /\ i' = i + 1
    /\ pc' = "loop"
    /\ result' = NoResult
    /\ page' = <<>>
    /\ probes' = <<>>
    /\ requests' = 0
    /\ UNCHANGED <<variant, urls, response, sessionVars>>

ReturnStatic == AppendStatic /\ UNCHANGED historyVars

\* r.get("status") == s
HasStatus(r, s) == "status" \in DOMAIN r /\ r.status = s

CountStatus(rs, s) == Cardinality({k \in 1..Len(rs) : HasStatus(rs[k], s)})

\* Mutant of StaticResponse: `failed` counts the status "failed".
StaticResponseFailedTypo(rs) ==
    [results |-> rs,
     summary |-> [total_requested |-> Len(urls),
                  successful |-> CountStatus(rs, "success"),
                  limited_data |-> CountStatus(rs, "limited_data"),
                  failed |-> CountStatus(rs, "failed")],
     method |-> "Enhanced extraction with multiple strategies"]

\* The response of hotstar.py's serve_multiple_data.
StaticResponse(rs) ==
    [results |-> rs,
     summary |-> [total_requested |-> Len(urls),
                  successful |-> CountStatus(rs, "success"),
                  limited_data |-> CountStatus(rs, "limited_data"),
                  failed |-> CountStatus(rs, "error")],
     method |-> "Enhanced extraction with multiple strategies"]

\* The loop is over: the handler returns its response.
Respond ==
    /\ pc = "loop" /\ i > Len(urls)
    /\ response' = IF variant = "static" THEN StaticResponse(results) ELSE results
    /\ pc' = "done"
    /\ UNCHANGED <<variant, urls, i, results, result, slept, staticVars,
                   sessionVars, historyVars>>

\* ------------------------------------------------------------------ rendering session

Docker == variant = "docker" /\ i <= Len(urls)

\* A statement of the session's try block raised `e`: control is in the handler.
Caught(e) == exc' = e /\ pc' = "except"

\* driver = webdriver.Chrome(options=options); wait = WebDriverWait(driver, 15)
Launch ==
    /\ Docker /\ pc = "loop"
    /\ \/ driver' = TRUE /\ pc' = "get" /\ exc' = exc
       \/ driver' = FALSE /\ Caught(<<"WebDriverException: cannot start chrome">>)
    /\ UNCHANGED <<variant, urls, i, results, result, slept, response, staticVars,
                   quits, episodes, title, description, date_text, historyVars>>

\* driver.get(url)
Navigate ==
    /\ Docker /\ pc = "get"
    /\ \/ pc' = "wait" /\ exc' = exc
       \/ Caught(<<"TimeoutException: page load">>)
    /\ UNCHANGED <<variant, urls, i, results, result, slept, response, staticVars,
                   driver, quits, episodes, title, description, date_text, historyVars>>

\* wait.until(visibility_of_element_located(episode-card))
WaitForCards ==
    /\ Docker /\ pc = "wait"
    /\ \/ pc' = "scroll" /\ exc' = exc
       \/ Caught(<<"TimeoutException: episode card">>)
    /\ UNCHANGED <<variant, urls, i, results, result, slept, response, staticVars,
                   driver, quits, episodes, title, description, date_text, historyVars>>

\* driver.execute_script("window.scrollTo(...)"); time.sleep(3)
Scroll ==
    /\ Docker /\ pc = "scroll"
    /\ \/ pc' = "find" /\ exc' = exc
       \/ Caught(<<"JavascriptException">>)
    /\ UNCHANGED <<variant, urls, i, results, result, slept, response, staticVars,
                   driver, quits, episodes, title, description, date_text, historyVars>>

\* episodes = driver.find_elements(episode-card)
FindEpisodes ==
    /\ Docker /\ pc = "find"
    /\ \E eps \in EpisodeLists :
          /\ episodes' = eps
          /\ pc' = IF eps = <<>> THEN "noeps" ELSE "title"
    /\ UNCHANGED <<variant, urls, i, results, result, slept, response, staticVars,
                   driver, quits, title, description, date_text, exc, historyVars>>

\* `if not episodes:` driver.quit(), then raise: the quit call returns and the
\* Exception is raised, or the quit call itself raises.
NoEpisodes ==
    /\ Docker /\ pc = "noeps"
    /\ quits' = quits + 1
    /\ \/ Caught(<<"No episodes found for URL">>)
       \/ Caught(<<"WebDriverException: quit">>)
    /\ UNCHANGED <<variant, urls, i, results, result, slept, response, staticVars,
                   driver, episodes, title, description, date_text, historyVars>>

first == episodes[1]

\* title = first.find_element(By.TAG_NAME, "h3").text
Title ==
    /\ Docker /\ pc = "title"
    /\ IF first.h3 # None
       THEN title' = first.h3 /\ pc' = "desc" /\ exc' = exc
       ELSE title' = title /\ Caught(<<"NoSuchElementException: h3">>)
    /\ UNCHANGED <<variant, urls, i, results, result, slept, response, staticVars,
                   driver, quits, episodes, description, date_text, historyVars>>

\* description = textContent of the first p[class*='ON_IMAGE_ALT2'], stripped
Description ==
    /\ Docker /\ pc = "desc"
    /\ IF first.p # None
       THEN description' = Strip(first.p) /\ pc' = "date" /\ exc' = exc
       ELSE description' = description /\ Caught(<<"NoSuchElementException: p">>)
    /\ UNCHANGED <<variant, urls, i, results, result, slept, response, staticVars,
                   driver, quits, episodes, title, date_text, historyVars>>

\* Mutant of DateSpan: the first span is taken.
DateSpanFirst(spans) == spans[1]

\* date_spans[1] of the Python list: the second span
DateSpan(spans) == spans[2]

\* date_text = textContent of date_spans[1], stripped
Date ==
    /\ Docker /\ pc = "date"
    /\ IF ~first.container
       THEN date_text' = date_text /\ Caught(<<"NoSuchElementException: div">>)
       ELSE IF Len(first.spans) < 2
       THEN date_text' = date_text /\ Caught(<<"IndexError: list index out of range">>)
       ELSE date_text' = Strip(DateSpan(first.spans)) /\ pc' = "quit" /\ exc' = exc
    /\ UNCHANGED <<variant, urls, i, results, result, slept, response, staticVars,
                   driver, quits, episodes, title, description, historyVars>>

\* driver.quit() after the extraction, then the record is returned; or the quit
\* call raises.
Quit ==
    /\ Docker /\ pc = "quit"
    /\ quits' = quits + 1
    /\ \/ result' = EpisodeRecord(title, description, date_text, url)
             /\ pc' = "ret" /\ exc' = exc
       \/ result' = result /\ Caught(<<"WebDriverException: quit">>)
    /\ UNCHANGED <<variant, urls, i, results, slept, response, staticVars,
                   driver, episodes, title, description, date_text, historyVars>>

\* `except Exception as e` with no driver bound: the error record is returned.
ExceptNoDriver ==
    /\ Docker /\ pc = "except" /\ ~driver
    /\ result' = SessionError(exc, url)
    /\ pc' = "ret"
    /\ UNCHANGED <<variant, urls, i, results, slept, response, staticVars,
                   sessionVars, historyVars>>

\* `except Exception as e` with a driver: driver.quit() is called; it returns
\* and the error record is returned, or it raises and the exception leaves
\* scrape_episode_data and serve_multiple_data, which catch nothing.
ExceptQuit ==
    /\ Docker /\ pc = "except" /\ driver
    /\ quits' = quits + 1
    /\ \/ result' = SessionError(exc, url) /\ pc' = "ret"
       \/ result' = result /\ pc' = "aborted"
    /\ UNCHANGED <<variant, urls, i, results, slept, response, staticVars,
                   driver, episodes, title, description, date_text, exc, historyVars>>

\* results.append(scrape_episode_data(url))
AppendDocker ==
    /\ Docker /\ pc = "ret"
    /\ results' = Append(results, result)
    /\ i' = i + 1
    /\ pc' = "loop"
    /\ result' = NoResult
    /\ driver' = FALSE
    /\ quits' = 0
    /\ episodes' = <<>>
    /\ title' = None
    /\ description' = None
    /\ date_text' = None
    /\ exc' = None
    /\ UNCHANGED <<variant, urls, slept, response, staticVars, historyVars>>

\* ------------------------------------------------------------------ specification

Next ==
    \/ Fetch \/ FetchFail \/ JsonLd \/ InlineScripts \/ MetaTagScan \/ Probe
    \/ Exhausted \/ ReturnStatic \/ Respond
    \/ Launch \/ Navigate \/ WaitForCards \/ Scroll \/ FindEpisodes \/ NoEpisodes
    \/ Title \/ Description \/ Date \/ Quit \/ ExceptNoDriver \/ ExceptQuit
    \/ AppendDocker

Spec == Init /\ [][Next]_vars

\* ------------------------------------------------------------------ two runs on one page

\* The static extractor run twice for the same target: the second fetch
\* returns the bytes of the first, the endpoints answer each run as they like.
InitTwice ==
    /\ variant = "static"
    /\ urls \in { <<u, u>> : u \in TwiceURLs }
    /\ Start

FetchTwice ==
    /\ Static /\ pc = "loop"
    /\ \E p \in PageSet :
          /\ prevPage # <<>> => p = prevPage[1]
          /\ page' = <<p>>
    /\ requests' = requests + 1
    /\ pc' = "s1"
    /\ UNCHANGED <<variant, urls, i, results, result, slept, response, probes,
                   sessionVars, historyVars>>

ReturnTwice ==
    /\ AppendStatic
    /\ prevPage' = page
    /\ prevProbes' = probes

NextTwice ==
    \/ FetchTwice \/ FetchFail \/ JsonLd \/ InlineScripts \/ MetaTagScan \/ Probe
    \/ Exhausted \/ ReturnTwice \/ Respond

SpecTwice == InitTwice /\ [][NextTwice]_vars

\* ------------------------------------------------------------------ properties

\* The show name each variant derives for a URL.
DerivedName(u) ==
    IF variant = "static" THEN format_name_from_url(u) ELSE docker_format_name_from_url(u)

\* The handler has ended: it returned its response, or an exception left it.
Ended == pc \in {"done", "aborted"}

\* C1: when the batch handler has ended, it has produced exactly one result per
\* input target, and the k-th result carries the show name of the k-th target.
C1_OneResultPerTarget ==
    Ended =>
        /\ Len(results) = Len(urls)
        /\ \A k \in 1..Len(results) : results[k].name = DerivedName(urls[k])

\* The extraction of the current target has returned after a failure of its
\* path: the fetch failed or a strategy raised (static), or the session's
\* `except` clause ran (rendering).
ExtractionFailed ==
    /\ pc = "ret"
    /\ \/ variant = "static" /\ page = <<>>
       \/ variant = "static" /\ page # <<>>
            /\ Strategy1(page[1], format_name_from_url(url)).kind = "raise"
       \/ variant = "docker" /\ exc # None

\* C2: a failed extraction yields an Error-status record with `error` set and
\* the derived show name, and the batch goes on to the later targets.
C2_FailureGivesErrorRecord ==
    /\ ExtractionFailed =>
          /\ HasStatus(result, "error")
          /\ "error" \in DOMAIN result
          /\ result.name = DerivedName(url)
    /\ pc = "done" => Len(results) = Len(urls)
    /\ pc # "aborted"

\* C3: when a session that launched a browser returns its result, driver.quit()
\* has been called exactly once in it.
C3_QuitExactlyOnce ==
    (variant = "docker" /\ pc = "ret" /\ driver) => quits = 1

\* A JSON-LD block that parses to a dict with a name/title or a description.
UsableLd(sc) ==
    /\ sc.ld /\ sc.body = "dict"
    /\ \/ Truthy(Get(sc.kv, "name")) \/ Truthy(Get(sc.kv, "title"))
       \/ Truthy(Get(sc.kv, "description"))

HasUsableLd(p) == \E k \in 1..Len(p.scripts) : UsableLd(p.scripts[k])

HasMeta(p) == \E k \in 1..Len(MetaTags) : MetaTags[k][1] \in DOMAIN p.metas

\* C4: for a fetched page holding a valid structured-markup block and valid
\* meta tags, the returned record has the structured-markup source.
C4_StructuredMarkupFirst ==
    (variant = "static" /\ pc = "ret" /\ page # <<>>
        /\ HasUsableLd(page[1]) /\ HasMeta(page[1]))
    => ("source" \in DOMAIN result /\ result.source = "JSON-LD")

\* C5: the name of every returned record is a non-empty string, and it is
\* "Unknown Show" for a URL without a shows/<segment>/ part.
C5_NameNeverEmpty ==
    pc = "ret" =>
        /\ result.name # None
        /\ result.name # <<>>
        /\ ~HasShows(url) => result.name = UnknownShow

\* status is Error iff error is set
StatusIffError(r) == HasStatus(r, "error") <=> "error" \in DOMAIN r

\* C6: every record returned by an extraction, every record of the results
\* list and the batch loop's own failure record has status Error if and only
\* if its `error` field is set.
C6_StatusErrorIffErrorSet ==
    /\ pc = "ret" => StatusIffError(result)
    /\ \A k \in 1..Len(results) : StatusIffError(results[k])
    /\ \A u \in URLSet : StatusIffError(ProcessingFailed(u, "exception"))

\* A page with no structured markup, no matching script pattern, no meta tag
\* and no title element.
NoStaticSignal(p) ==
    /\ \A k \in 1..Len(p.scripts) :
          /\ ~p.scripts[k].ld
          /\ \A m \in 1..Len(Patterns) :
                Patterns[m] \notin DOMAIN p.scripts[k].kv
    /\ DOMAIN p.metas = {}
    /\ p.title = None

EveryProbeFailed == \A k \in 1..Len(probes) : probes[k].kind \in {"raise", "non200"}

\* C7: when the fetch succeeded, the page holds nothing for strategies 1 to 3
\* and every probed endpoint raised or answered non-200, the returned record
\* has status limited_data, the placeholder fields and no error.
C7_ExhaustionIsLimitedData ==
    (variant = "static" /\ pc = "ret" /\ page # <<>>
        /\ NoStaticSignal(page[1]) /\ EveryProbeFailed)
    => /\ HasStatus(result, "limited_data")
       /\ "error" \notin DOMAIN result
       /\ result.title = <<"Unable to extract title">>
       /\ result.date = <<"Unable to extract date">>
       /\ result.name = format_name_from_url(url)

C7_Witness ==
    /\ variant = "static" /\ pc = "ret" /\ page # <<>>
    /\ NoStaticSignal(page[1]) /\ EveryProbeFailed
    /\ HasContentId(url) /\ Len(probes) = NumApiUrls
    /\ \E k \in 1..Len(probes) : probes[k].kind = "raise"
    /\ \E k \in 1..Len(probes) : probes[k].kind = "non200"
    /\ HasStatus(result, "limited_data")

\* The second run of the two-run specification has returned, on the page of
\* the first run.
SecondRunReturned ==
    /\ variant = "static" /\ i = 2 /\ pc = "ret" /\ Len(results) = 1
    /\ page # <<>> /\ prevPage = page
    /\ urls[1] = urls[2]

StaticSignal(p) ==
    \/ HasUsableLd(p)
    \/ \E k \in 1..Len(p.scripts) : \E m \in 1..Len(Patterns) :
          p.scripts[k].body # "none" /\ PatternFound(p.scripts[k], Patterns[m])
    \/ HasMeta(p)
    \/ p.title # None

C9_DateIsSecondSpan ==
    (variant = "docker" /\ pc = "ret" /\ "date" \in DOMAIN result)
    => /\ episodes # <<>>
       /\ result.title = episodes[1].h3
       /\ result.description = Strip(episodes[1].p)
       /\ Len(episodes[1].spans) = 2 => result.date = Strip(episodes[1].spans[2])

C9_Witness ==
    /\ variant = "docker" /\ pc = "ret" /\ "date" \in DOMAIN result
    /\ Len(episodes) >= 2 /\ episodes[1] # episodes[2]
    /\ Len(episodes[1].spans) = 2
    /\ Strip(episodes[1].spans[1]) # Strip(episodes[1].spans[2])
    /\ episodes[1].spans[2] # Strip(episodes[1].spans[2])
    /\ result.date = Strip(episodes[1].spans[2])

\* C10: an exception raised by driver.quit() never leaves the session: the
\* handler is never ended by an exception.
C10_CleanupFailureContained == pc # "aborted"

\* The session of the current target returned after reaching the first card,
\* and its driver.quit() calls all returned.
FirstCardReturned ==
    /\ variant = "docker" /\ pc = "ret" /\ episodes # <<>>
    /\ exc # <<"WebDriverException: quit">>

\* C11: the three extractions from the first card are independent: whichever
\* of them fails, the record is no error record and the other fields keep
\* their extracted values.
C11_FieldFailuresIndependent ==
    FirstCardReturned =>
        /\ "error" \notin DOMAIN result
        /\ first.h3 # None => result.title = first.h3
        /\ first.p # None => result.description = Strip(first.p)
        /\ (first.container /\ Len(first.spans) >= 2)
              => result.date = Strip(first.spans[2])

\* A JSON-LD block json.loads cannot turn into a dict.
MalformedLd(sc) == sc.ld /\ sc.body \in {"none", "invalid", "list"}

HasMalformedLd(p) == \E k \in 1..Len(p.scripts) : MalformedLd(p.scripts[k])

\* C12: a page with a malformed structured-markup block never gives an
\* Error-status record by that block, and a usable block of the same page is
\* still taken.
C12_MalformedBlockSkipped ==
    (variant = "static" /\ pc = "ret" /\ page # <<>> /\ HasMalformedLd(page[1]))
    => /\ ~HasStatus(result, "error")
       /\ "error" \notin DOMAIN result
       /\ HasUsableLd(page[1]) => result.source = "JSON-LD"

\* The extraction of the current target returned a record of strategy 2.
ScriptPatternResult ==
    /\ variant = "static" /\ pc = "ret" /\ page # <<>>
    /\ "source" \in DOMAIN result
    /\ result.source = "JavaScript extraction"

\* C13: a script-pattern record is returned only when one of title, name,
\* description, synopsis matched.
C13_ScriptScanNeedsTitleOrDescription ==
    ScriptPatternResult =>
        \E k \in 1..Len(result.extracted_fields) :
            result.extracted_fields[k] \in {"title", "name", "description", "synopsis"}

\* C14: a script-pattern record never comes from a structured-markup block: it
\* is the record of a script element that is no JSON-LD block.
C14_ScriptScanSkipsStructuredMarkup ==
    ScriptPatternResult =>
        \E k \in 1..Len(page[1].scripts) :
            /\ ~page[1].scripts[k].ld
            /\ ScriptAccepted(page[1].scripts[k])
            /\ result = JavaScriptRecord(page[1].scripts[k], format_name_from_url(url))

\* The extraction of the current target returned a record of strategy 4.
ApiResult ==
    /\ variant = "static" /\ pc = "ret" /\ page # <<>>
    /\ "source" \in DOMAIN result
    /\ \E k \in 1..NumApiUrls : result.source = ApiSource(k)

\* C16: an endpoint is accepted only when its result object holds a usable
\* title/name or description/synopsis.
C16_ApiAcceptsOnlyUsableResult ==
    ApiResult =>
        LET answer == probes[Len(probes)]
        IN  /\ answer.kind = "results"
            /\ \E key \in {"title", "name", "description", "synopsis"} :
                  Truthy(Get(answer.result, key))

\* C17: in both variants the loop has paused once after every target but the
\* last: i - 1 times when target i is about to be processed, and
\* Len(urls) - 1 times when the handler has ended on a non-empty list.
C17_PauseBetweenTargets ==
    /\ (pc = "loop" /\ i <= Len(urls)) => slept = i - 1
    /\ (pc = "done" /\ Len(urls) > 0) => slept = Len(urls) - 1

\* The extraction of the current target returned a record of strategy 3.
MetaResult ==
    /\ variant = "static" /\ pc = "ret" /\ page # <<>>
    /\ "source" \in DOMAIN result
    /\ result.source = "Meta tags"

\* The content of the first meta of `names` the page carries, else `default`.
FirstPresent(metas, names, default) ==
    LET found == {k \in 1..Len(names) : names[k] \in DOMAIN metas}
    IN  IF found = {} THEN default
        ELSE metas[names[CHOOSE k \in found : \A j \in found : k <= j]]

\* The title of a meta-tag record: a title meta, else the title element.
MetaTitleOf(p) ==
    FirstPresent(p.metas, <<"og:title", "twitter:title">>,
                 IF p.title # None THEN Strip(p.title) ELSE <<"Title not available">>)

MetaDateOf(p) ==
    FirstPresent(p.metas, <<"og:updated_time", "article:published_time">>,
                 <<"Date not available">>)

\* C15 as stated: the description is the first found of plain description,
\* og:description; the title is the first found of og:title, twitter:title,
\* else the title element.
C15_PlainDescriptionFirst ==
    MetaResult =>
        /\ result.title = MetaTitleOf(page[1])
        /\ result.description =
              FirstPresent(page[1].metas, <<"description", "og:description">>,
                           <<"Description not available">>)
        /\ result.date = MetaDateOf(page[1])

\* C15 amended: the description is the first found of og:description,
\* twitter:description, plain description, so og:description wins over a plain
\* description; the title is the first found of og:title, twitter:title, else
\* the title element; the date the first found of og:updated_time,
\* article:published_time.
C15_OgDescriptionFirst ==
    MetaResult =>
        /\ result.title = MetaTitleOf(page[1])
        /\ result.description =
              FirstPresent(page[1].metas,
                           <<"og:description", "twitter:description", "description">>,
                           <<"Description not available">>)
        /\ result.date = MetaDateOf(page[1])
        /\ {"description", "og:description"} \subseteq DOMAIN page[1].metas
              => result.description = page[1].metas["og:description"]

C15_Witness ==
    /\ MetaResult
    /\ {"description", "og:description"} \subseteq DOMAIN page[1].metas
    /\ page[1].metas["description"] # page[1].metas["og:description"]
    /\ result.description = page[1].metas["og:description"]
    /\ "og:title" \notin DOMAIN page[1].metas /\ page[1].title # None
    /\ result.title = Strip(page[1].title)

\* C18: in the static variant's response the three status counts add up to
\* total_requested, which is the number of result records and of targets.
C18_SummaryPartitionsResults ==
    (variant = "static" /\ pc = "done") =>
        LET summary == response.summary
        IN  /\ summary.successful + summary.limited_data + summary.failed
                  = summary.total_requested
            /\ summary.total_requested = Len(response.results)
            /\ Len(response.results) = Len(urls)

C18_Witness ==
    /\ variant = "static" /\ pc = "done"
    /\ Len(response.results) = 2
    /\ response.summary.failed = 1
    /\ response.summary.limited_data + response.summary.successful = 1
    /\ response.summary.total_requested = 2

\* An earlier strategy was accepted for the current target.
EarlierStrategyAccepted ==
    /\ "source" \in DOMAIN result
    /\ result.source \in {"JSON-LD", "JavaScript extraction", "Meta tags"}

\* C19: the page fetch is issued once and never again; endpoints are requested
\* only for a fetched page in which strategies 1 to 3 found nothing and a URL
\* with a trailing content id, one request per endpoint probed; when an earlier
\* strategy is accepted or the URL has no content id, the fetch is the only
\* request.
C19_ProbeOnlyAfterExhaustion ==
    /\ (variant = "static" /\ pc \in {"s1", "s2", "s3"}) => requests = 1 /\ probes = <<>>
    /\ (variant = "static" /\ pc \in {"s4", "ret"}) =>
          /\ requests = 1 + Len(probes)
          /\ requests <= 1 + NumApiUrls
          /\ page = <<>> => requests = 1
          /\ requests > 1 =>
                /\ page # <<>>
                /\ ~StaticSignal(page[1])
                /\ HasContentId(url)
                /\ ~EarlierStrategyAccepted
    /\ (variant = "static" /\ pc = "ret"
          /\ (EarlierStrategyAccepted \/ ~HasContentId(url))) => requests = 1

C19_Witness ==
    /\ variant = "static" /\ pc = "ret" /\ page # <<>>
    /\ HasContentId(url)
    /\ EarlierStrategyAccepted /\ result.source = "Meta tags"
    /\ requests = 1 /\ probes = <<>>
    /\ i = 2 /\ results[1] = result

====
